---- MODULE Spec2Model ----
(***************************************************************************)
(* A model of ratinabox.py: the Environment (extent, boundary conditions,  *)
(* walls, boundary- and wall-aware vector and distance queries) and the    *)
(* Agent's motion update (stochastic policy in 2D and 1D, imported         *)
(* trajectory playback).                                                   *)
(*                                                                         *)
(* Units.  Lengths are held in centimetres, times in quanta of 1.25 s, so  *)
(* velocities are in cm per quantum = 0.008 m/s.  In these units the       *)
(* program's defaults are whole numbers: speed_mean 0.08 m/s = 10,         *)
(* wall_repel_distance 0.10 m = 10, the 0.01 m clamp margin = 1, and the   *)
(* spring constant speed_mean^2/wall_repel_distance^2 = 1.  Every division *)
(* and square root rounds toward zero, the fixed-point counterpart of the  *)
(* program's floating-point rounding.                                      *)
(*                                                                         *)
(* Randomness.  The Gaussian draws of the Ornstein-Uhlenbeck increments    *)
(* are inputs of the update action, drawn from small sets.  The 1e-6 m     *)
(* perturbation that vector_intercepts adds to its inputs is four orders   *)
(* of magnitude below the centimetre grid: it cannot change the outcome    *)
(* for two segments that cross properly or that are disjoint, and it       *)
(* decides the outcome for two segments that only touch.  That decision is *)
(* a nondeterministic input (jit) of every collision test.                 *)
(***************************************************************************)
EXTENDS Integers, Sequences, FiniteSets, TLC

VARIABLES
    \* Environment
    dimensionality,          \* "1D" or "2D"
    boundary_conditions,     \* "solid" or "periodic"
    scale,                   \* cm
    aspect,                  \* x/y aspect ratio (2D)
    walls,                   \* sequence of <<p0, p1>> segments
    \* Agent
    t,                       \* elapsed time
    dt,                      \* last step size
    pos,                     \* <<x>> or <<x, y>>
    velocity,                \* <<vx>> or <<vx, vy>>
    rotational_velocity,     \* quarter turns per time quantum (2D)
    distance_travelled,
    use_imported_trajectory,
    t_interp,                \* <<>> while the attribute does not exist
    pos_interp,              \* <<>> while the attribute does not exist
    history,                 \* [t, pos, vel, rot_vel : sequences]
    thigmotaxis,             \* in halves: 0, 1, 2 stand for 0, 0.5, 1
    walls_repel,
    \* The last call made on the program and how it ended
    ret,
    \* The number of calls made so far, per operation
    ncalls

envVars == <<dimensionality, boundary_conditions, scale, aspect, walls>>
agentVars == <<t, dt, pos, velocity, rotational_velocity, distance_travelled,
               use_imported_trajectory, t_interp, pos_interp, history,
               thigmotaxis, walls_repel>>
vars == <<envVars, agentVars, ret, ncalls>>

-----------------------------------------------------------------------------
(* Bounds of the model *)

\* update calls explored per behaviour
MaxSteps == 2

\* add_wall calls explored per behaviour
MaxAddedWalls == 2

-----------------------------------------------------------------------------
(* Program constants, in the model's units *)

\* Agent.__init__: "speed_mean": 0.08
speed_mean == 10

\* Agent.__init__: self.wall_repel_distance = 0.10
wall_repel_distance == 10

\* apply_boundary_conditions: extent + 0.01 / extent - 0.01
ClampMargin == 1

\* get_distances_between___accounting_for_environment: distances[...] = 1000 (m)
LineOfSightSentinel == 100000

-----------------------------------------------------------------------------
(* Arithmetic *)

Abs(x) == IF x < 0 THEN -x ELSE x

Sign(x) == IF x > 0 THEN 1 ELSE IF x < 0 THEN -1 ELSE 0

Min(a, b) == IF a <= b THEN a ELSE b

Max(a, b) == IF a >= b THEN a ELSE b

\* a / b rounded toward zero, b > 0
Quot(a, b) == IF a >= 0 THEN a \div b ELSE -((-a) \div b)

RECURSIVE IsqrtBetween(_, _, _)
IsqrtBetween(n, lo, hi) ==
    IF lo >= hi THEN lo
    ELSE LET mid == (lo + hi + 1) \div 2
         IN  IF mid * mid <= n THEN IsqrtBetween(n, mid, hi)
             ELSE IsqrtBetween(n, lo, mid - 1)

\* floor of the square root of n >= 0
Isqrt(n) == IsqrtBetween(n, 0, n)

\* vectors are tuples of one or two integers
VAdd(a, b) ==
    IF Len(a) = 1 THEN <<a[1] + b[1]>> ELSE <<a[1] + b[1], a[2] + b[2]>>

VSub(a, b) ==
    IF Len(a) = 1 THEN <<a[1] - b[1]>> ELSE <<a[1] - b[1], a[2] - b[2]>>

VScale(k, a) ==
    IF Len(a) = 1 THEN <<k * a[1]>> ELSE <<k * a[1], k * a[2]>>

VQuot(a, k) ==
    IF Len(a) = 1 THEN <<Quot(a[1], k)>> ELSE <<Quot(a[1], k), Quot(a[2], k)>>

Dot(a, b) ==
    IF Len(a) = 1 THEN a[1] * b[1] ELSE a[1] * b[1] + a[2] * b[2]

\* np.linalg.norm
Norm(a) == Isqrt(Dot(a, a))

-----------------------------------------------------------------------------
(* Geometry functions *)

\* get_perpendicular: b[0] = -a[1]; b[1] = a[0]
get_perpendicular(a) == <<-a[2], a[1]>>

\* get_vectors_between for one pair: line_segments[..., 0, :] - line_segments[..., 1, :]
get_vectors_between(pos1, pos2) == VSub(pos1, pos2)

\* get_distances_between for one pair
get_distances_between(pos1, pos2) == Norm(get_vectors_between(pos1, pos2))

\* The intersection parameters of vector_intercepts as fractions <<numerator,
\* denominator>>: l_a = dot(d0, sb_p) / dot(sa, sb_p), l_b = dot(-d0, sa_p) / dot(sb, sa_p)
intercepts(a, b) ==
    LET d0   == VSub(b[1], a[1])
        sa   == VSub(a[2], a[1])
        sb   == VSub(b[2], b[1])
        sa_p == get_perpendicular(sa)
        sb_p == get_perpendicular(sb)
    IN  [l_a |-> <<Dot(d0, sb_p), Dot(sa, sb_p)>>,
         l_b |-> <<Dot(VScale(-1, d0), sa_p), Dot(sb, sa_p)>>]

\* 0 < n/d < 1 (false for d = 0, where numpy yields inf or nan)
StrictlyBetween01(f) == f[2] # 0 /\ f[1] * f[2] > 0 /\ Abs(f[1]) < Abs(f[2])

\* 0 <= n/d <= 1
Between01(f) == f[2] # 0 /\ f[1] * f[2] >= 0 /\ Abs(f[1]) <= Abs(f[2])

\* the collision test of vector_intercepts on the unperturbed segments
exact_collision(a, b) ==
    LET I == intercepts(a, b)
    IN  StrictlyBetween01(I.l_a) /\ StrictlyBetween01(I.l_b)

\* point p lies on the closed segment s
OnSegment(p, s) ==
    /\ Dot(VSub(p, s[1]), get_perpendicular(VSub(s[2], s[1]))) = 0
    /\ Dot(VSub(p, s[1]), VSub(p, s[2])) <= 0

\* the closed segments a and b share a point
segments_meet(a, b) ==
    LET I == intercepts(a, b)
    IN  IF I.l_a[2] # 0
        THEN Between01(I.l_a) /\ Between01(I.l_b)
        ELSE \/ OnSegment(a[1], b) \/ OnSegment(a[2], b)
             \/ OnSegment(b[1], a) \/ OnSegment(b[2], a)

\* the segments meet without crossing properly: the perturbation decides
segments_touch(a, b) == segments_meet(a, b) /\ ~exact_collision(a, b)

\* vector_intercepts(a, b, return_collisions=True) for one pair of segments;
\* jit is the outcome the random perturbation produces when the pair only touches
vector_intercepts(a, b, jit) ==
    exact_collision(a, b) \/ (segments_touch(a, b) /\ jit)

\* a faulty variant of shortest_vectors_from_points_to_lines: l_v is not clamped,
\* the vector starts at the foot of the perpendicular on the whole line
shortest_vectors_from_points_to_whole_lines(p, v) ==
    LET d   == VSub(p, v[1])
        s   == VSub(v[2], v[1])
    IN  VSub(d, VQuot(VScale(Dot(d, s), s), Dot(s, s)))

\* shortest_vectors_from_points_to_lines for one point and one segment:
\* l_v = dot(d, s) / dot(s, s) clamped to [0, 1]; perp = p - (p_v_0 + l_v * s)
shortest_vectors_from_points_to_lines(p, v) ==
    LET d   == VSub(p, v[1])
        s   == VSub(v[2], v[1])
        num == Dot(d, s)
        den == Dot(s, s)
    IN  IF num <= 0 THEN d
        ELSE IF num >= den THEN VSub(p, v[2])
        ELSE VSub(d, VQuot(VScale(num, s), den))

\* rotate by theta quarter turns: R = [[cos, -sin], [sin, cos]]
rotate(vector, theta) ==
    LET q == theta % 4
    IN  CASE q = 0 -> vector
          [] q = 1 -> <<-vector[2], vector[1]>>
          [] q = 2 -> <<-vector[1], -vector[2]>>
          [] q = 3 -> <<vector[2], -vector[1]>>

\* a faulty variant of wall_bounce: the component along the wall is reversed too
wall_bounce_straight_back(current_velocity, wall) == VScale(-1, current_velocity)

\* wall_bounce: new = wall_par * dot(v, wall_par) - wall_perp * dot(v, wall_perp),
\* wall_par and wall_perp normalised and turned to face the velocity
wall_bounce(current_velocity, wall) ==
    LET w0        == VSub(wall[2], wall[1])
        perp0     == get_perpendicular(w0)
        wall_perp == IF Dot(perp0, current_velocity) <= 0 THEN VScale(-1, perp0) ELSE perp0
        wall_par  == IF Dot(w0, current_velocity) <= 0 THEN VScale(-1, w0) ELSE w0
        n2        == Dot(w0, w0)
    IN  VQuot(VSub(VScale(Dot(current_velocity, wall_par), wall_par),
                   VScale(Dot(current_velocity, wall_perp), wall_perp)), n2)

-----------------------------------------------------------------------------
(* Environment *)

\* Environment.__init__: self.extent
extent ==
    IF dimensionality = "1D" THEN <<0, scale>>
    ELSE <<0, aspect * scale, 0, scale>>

\* Environment.__init__: self.walls
initial_walls(dim, bc, sc, asp) ==
    IF dim = "2D" /\ bc # "periodic"
    THEN << <<<<0, 0>>, <<0, sc>>>>,
            <<<<0, sc>>, <<asp * sc, sc>>>>,
            <<<<asp * sc, sc>>, <<asp * sc, 0>>>>,
            <<<<asp * sc, 0>>, <<0, 0>>>> >>
    ELSE << >>

\* a faulty variant of check_if_position_is_in_environment: the edges count as
\* inside
check_if_position_is_in_closed_extent(p) ==
    IF dimensionality = "2D"
    THEN /\ p[1] >= extent[1] /\ p[1] <= extent[2]
         /\ p[2] >= extent[3] /\ p[2] <= extent[4]
    ELSE p[1] >= extent[1] /\ p[1] <= extent[2]

\* check_if_position_is_in_environment
check_if_position_is_in_environment(p) ==
    IF dimensionality = "2D"
    THEN /\ p[1] > extent[1] /\ p[1] < extent[2]
         /\ p[2] > extent[3] /\ p[2] < extent[4]
    ELSE p[1] > extent[1] /\ p[1] < extent[2]

\* a faulty variant of apply_boundary_conditions: the position is left as it is
apply_boundary_conditions_skipped(p) == p

\* a faulty variant of apply_boundary_conditions: the clamp goes to the edge
\* itself, without the margin
apply_boundary_conditions_without_margin(p) ==
    IF check_if_position_is_in_environment(p) THEN p
    ELSE IF dimensionality = "1D"
         THEN IF boundary_conditions = "periodic" THEN <<p[1] % extent[2]>>
              ELSE <<Min(Max(p[1], extent[1]), extent[2])>>
         ELSE IF boundary_conditions = "periodic"
              THEN <<p[1] % extent[2], p[2] % extent[4]>>
              ELSE <<Min(Max(p[1], extent[1]), extent[2]),
                     Min(Max(p[2], extent[3]), extent[4])>>

\* a faulty variant of apply_boundary_conditions: the periodic wrap of x uses
\* the span of y
apply_boundary_conditions_wrapping_by_height(p) ==
    IF check_if_position_is_in_environment(p) THEN p
    ELSE IF dimensionality = "1D"
         THEN IF boundary_conditions = "periodic" THEN <<p[1] % extent[2]>>
              ELSE <<Min(Max(p[1], extent[1] + ClampMargin), extent[2] - ClampMargin)>>
         ELSE IF boundary_conditions = "periodic"
              THEN <<p[1] % extent[4], p[2] % extent[4]>>
              ELSE <<Min(Max(p[1], extent[1] + ClampMargin), extent[2] - ClampMargin),
                     Min(Max(p[2], extent[3] + ClampMargin), extent[4] - ClampMargin)>>

\* apply_boundary_conditions
apply_boundary_conditions(p) ==
    IF check_if_position_is_in_environment(p) THEN p
    ELSE IF dimensionality = "1D"
         THEN IF boundary_conditions = "periodic" THEN <<p[1] % extent[2]>>
              ELSE <<Min(Max(p[1], extent[1] + ClampMargin), extent[2] - ClampMargin)>>
         ELSE IF boundary_conditions = "periodic"
              THEN <<p[1] % extent[2], p[2] % extent[4]>>
              ELSE <<Min(Max(p[1], extent[1] + ClampMargin), extent[2] - ClampMargin),
                     Min(Max(p[2], extent[3] + ClampMargin), extent[4] - ClampMargin)>>

\* a faulty variant of fold: only a positive component is taken around the back
fold_positive_only(c) == IF 2 * c > scale THEN c - scale ELSE c

\* the periodic fold of one component: flip = |v| > scale / 2;
\* v[flip] = -sign(v[flip]) * (scale - |v[flip]|)
fold(c) == IF 2 * Abs(c) > scale THEN (-Sign(c)) * (scale - Abs(c)) ELSE c

\* get_vectors_between___accounting_for_environment for one pair
get_vectors_between___accounting_for_environment(pos1, pos2) ==
    LET vectors == get_vectors_between(pos1, pos2)
    IN  IF boundary_conditions = "periodic"
        THEN IF Len(vectors) = 1 THEN <<fold(vectors[1])>>
             ELSE <<fold(vectors[1]), fold(vectors[2])>>
        ELSE vectors

\* walls[4:]
internal_walls == SubSeq(walls, 5, Len(walls))

\* the indices of the walls ws that only touch the segment: the pairs whose
\* collision test the perturbation decides
touching(ws, segment) == {i \in DOMAIN ws : segments_touch(segment, ws[i])}

\* the record of the last call while none was made: the operation, how it
\* ended, its arguments and its value
NoCall == [op |-> "none", ok |-> TRUE, error |-> "", args |-> <<>>, value |-> <<>>]

\* the result of a call: the value returned, or the error raised
Returned(v) == [ok |-> TRUE, error |-> "", value |-> v]

Raised(e) == [ok |-> FALSE, error |-> e, value |-> <<>>]

\* the geodesic branch with len(walls) = 5; jit: whether a touching walls[4]
\* is reported as colliding
geodesic_via_wall(pos1, pos2, distances, jit) ==
    LET wall == walls[5]
        via_wall_distances ==
            {get_distances_between(pos1, wall[k]) + get_distances_between(wall[k], pos2) :
                k \in {k \in 1..2 : check_if_position_is_in_environment(wall[k])}}
        wall_obstructs_view_of_cell == vector_intercepts(<<pos1, pos2>>, wall, jit)
    IN  IF via_wall_distances = {} THEN Raised("ValueError")
        ELSE IF wall_obstructs_view_of_cell
             THEN Returned(CHOOSE m \in via_wall_distances :
                               \A o \in via_wall_distances : m <= o)
             ELSE Returned(distances)

\* a faulty variant of the line_of_sight branch: the assertion on the boundary
\* conditions is missing
line_of_sight_any_boundary(pos1, pos2, distances, J) ==
    IF \E i \in DOMAIN internal_walls :
           vector_intercepts(<<pos1, pos2>>, internal_walls[i], i \in J)
    THEN Returned(LineOfSightSentinel)
    ELSE Returned(distances)

\* a faulty variant of the line_of_sight branch: walls in place of walls[4:]
line_of_sight_all_walls(pos1, pos2, distances, J) ==
    IF boundary_conditions # "solid" THEN Raised("AssertionError")
    ELSE IF \E i \in DOMAIN walls : vector_intercepts(<<pos1, pos2>>, walls[i], i \in J)
         THEN Returned(LineOfSightSentinel)
         ELSE Returned(distances)

\* a faulty variant of the geodesic branch: the assertion lets one wall more through
geodesic_up_to_six_walls(pos1, pos2, distances, J) ==
    IF boundary_conditions # "solid" THEN Raised("AssertionError")
    ELSE IF ~(Len(walls) <= 6) THEN Raised("AssertionError")
    ELSE IF Len(walls) = 4 THEN Returned(distances)
    ELSE geodesic_via_wall(pos1, pos2, distances, 1 \in J)

\* the line_of_sight branch; J: the touching internal walls the perturbation
\* reports as colliding
line_of_sight(pos1, pos2, distances, J) ==
    IF boundary_conditions # "solid" THEN Raised("AssertionError")
    ELSE IF \E i \in DOMAIN internal_walls :
                vector_intercepts(<<pos1, pos2>>, internal_walls[i], i \in J)
         THEN Returned(LineOfSightSentinel)
         ELSE Returned(distances)

\* a faulty variant of the geodesic branch: walls[4] is read without the test
\* len(walls) == 4, and is out of range with the four bounding walls alone
geodesic_without_shortcut(pos1, pos2, distances, J) ==
    IF boundary_conditions # "solid" THEN Raised("AssertionError")
    ELSE IF ~(Len(walls) <= 5) THEN Raised("AssertionError")
    ELSE IF Len(walls) < 5 THEN Raised("IndexError")
    ELSE geodesic_via_wall(pos1, pos2, distances, 1 \in J)

\* the geodesic branch
geodesic(pos1, pos2, distances, J) ==
    IF boundary_conditions # "solid" THEN Raised("AssertionError")
    ELSE IF ~(Len(walls) <= 5) THEN Raised("AssertionError")
    ELSE IF Len(walls) = 4 THEN Returned(distances)
    ELSE geodesic_via_wall(pos1, pos2, distances, 1 \in J)

\* get_distances_between___accounting_for_environment for one pair
get_distances_between___accounting_for_environment(pos1, pos2, wall_geometry, J) ==
    LET vectors   == get_vectors_between___accounting_for_environment(pos1, pos2)
        distances == Norm(vectors)
    IN  IF dimensionality = "1D" THEN Returned(distances)
        ELSE CASE wall_geometry = "euclidean" -> Returned(distances)
               [] wall_geometry = "line_of_sight" -> line_of_sight(pos1, pos2, distances, J)
               [] wall_geometry = "geodesic" -> geodesic(pos1, pos2, distances, J)

\* a faulty variant of check_wall_collisions: only the wall's intersection
\* parameter is tested, so a step whose line would cross a wall collides with it
check_wall_collisions_along_the_line(proposed_step, J) ==
    IF dimensionality = "1D" THEN {}
    ELSE {i \in DOMAIN walls :
            StrictlyBetween01(intercepts(walls[i], proposed_step).l_a)}

\* check_wall_collisions: the indices of the walls the proposed step collides
\* with ({} where the program returns (None, None));
\* J: the touching walls the perturbation reports as colliding
check_wall_collisions(proposed_step, J) ==
    IF dimensionality = "1D" THEN {}
    ELSE {i \in DOMAIN walls : vector_intercepts(walls[i], proposed_step, i \in J)}

\* vectors_from_walls: the shortest vector from every wall to p
vectors_from_walls(p) ==
    [i \in DOMAIN walls |-> shortest_vectors_from_points_to_lines(p, walls[i])]

-----------------------------------------------------------------------------
(* Agent.update: the 2D stochastic policy *)

\* get_angle in quarter turns, rounded down: arctan2(y, x + eps) mod 2 pi
get_angle(segment) ==
    IF segment[2] = 0 THEN (IF segment[1] < 0 THEN 2 ELSE 0)
    ELSE IF segment[2] > 0 THEN (IF segment[1] >= 0 THEN 0 ELSE 1)
    ELSE (IF segment[1] >= 0 THEN 3 ELSE 2)

\* the deterministic drift of ornstein_uhlenbeck (noise_scale = 0):
\* dx = theta * (drift - x) * dt, with theta * dt given in halves
drift_increment(x, drift, gain) == VQuot(VScale(gain, VSub(drift, x)), 2)

\* one wall's share of the spring acceleration, as a vector: the magnitude
\* spring_constant * (d - x) for x <= d, else 0, along the unit vector vec / x;
\* u stands in for the unit vector where x = 0 and the perturbation picks it
wall_acceleration_vec(vec, u) ==
    LET x == Norm(vec)
        d == wall_repel_distance
        v == speed_mean
    IN  IF x > d THEN <<0, 0>>
        ELSE IF x = 0 THEN VQuot(VScale(v * v * d, u), d * d)
        ELSE VQuot(VScale(v * v * (d - x), vec), d * d * x)

\* one wall's share of the conveyor-belt speed, as a vector: the magnitude
\* v * (1 - sqrt(1 - (d - x)^2 / d^2)) for x <= d, else 0, along vec / x
wall_speed_vec(vec, u) ==
    LET x == Norm(vec)
        d == wall_repel_distance
        v == speed_mean
        m == v * d - v * Isqrt(d * d - (d - x) * (d - x))
    IN  IF x > d THEN <<0, 0>>
        ELSE IF x = 0 THEN VQuot(VScale(m, u), d)
        ELSE VQuot(VScale(m, vec), d * x)

RECURSIVE VSum(_, _)
VSum(vs, n) == IF n = 0 THEN <<0, 0>> ELSE VAdd(VSum(vs, n - 1), vs[n])

\* a faulty variant of wall_repulsion: walls_repel is not consulted
wall_repulsion_whenever_walls_exist(vel, p, step, u) ==
    IF Len(walls) > 0
    THEN LET vfw == vectors_from_walls(p)
             acc == VSum([i \in DOMAIN walls |-> wall_acceleration_vec(vfw[i], u)], Len(walls))
             spd == VSum([i \in DOMAIN walls |-> wall_speed_vec(vfw[i], u)], Len(walls))
             dv  == VScale(step, acc)
             dx  == VScale(step, spd)
         IN  <<VAdd(vel, VQuot(VScale(3 * (2 - thigmotaxis) * (2 - thigmotaxis), dv), 4)),
               VAdd(p, VQuot(VScale(6 * thigmotaxis * thigmotaxis, dx), 4))>>
    ELSE <<vel, p>>

\* a faulty variant of wall_repulsion: the two thigmotaxis weights are exchanged
wall_repulsion_weights_exchanged(vel, p, step, u) ==
    IF walls_repel /\ Len(walls) > 0
    THEN LET vfw == vectors_from_walls(p)
             acc == VSum([i \in DOMAIN walls |-> wall_acceleration_vec(vfw[i], u)], Len(walls))
             spd == VSum([i \in DOMAIN walls |-> wall_speed_vec(vfw[i], u)], Len(walls))
             dv  == VScale(step, acc)
             dx  == VScale(step, spd)
         IN  <<VAdd(vel, VQuot(VScale(3 * thigmotaxis * thigmotaxis, dv), 4)),
               VAdd(p, VQuot(VScale(6 * (2 - thigmotaxis) * (2 - thigmotaxis), dx), 4))>>
    ELSE <<vel, p>>

\* the wall repulsion sub-step: <<velocity, pos>> after it.
\* self.velocity += 3 * (1 - thigmotaxis)^2 * dv; self.pos += 6 * thigmotaxis^2 * dx
wall_repulsion(vel, p, step, u) ==
    IF walls_repel /\ Len(walls) > 0
    THEN LET vfw == vectors_from_walls(p)
             acc == VSum([i \in DOMAIN walls |-> wall_acceleration_vec(vfw[i], u)], Len(walls))
             spd == VSum([i \in DOMAIN walls |-> wall_speed_vec(vfw[i], u)], Len(walls))
             dv  == VScale(step, acc)
             dx  == VScale(step, spd)
         IN  <<VAdd(vel, VQuot(VScale(3 * (2 - thigmotaxis) * (2 - thigmotaxis), dv), 4)),
               VAdd(p, VQuot(VScale(6 * thigmotaxis * thigmotaxis, dx), 4))>>
    ELSE <<vel, p>>

\* a faulty variant of collision_step: the bounce is off the colliding wall of
\* highest index
collision_step_off_last_wall(vel, p, step, J, u) ==
    LET proposed_new_pos == VAdd(p, VScale(step, vel))
        wall_collisions  == check_wall_collisions(<<p, proposed_new_pos>>, J)
    IN  IF wall_collisions = {} THEN <<vel, proposed_new_pos, 0>>
        ELSE LET last     == CHOOSE i \in wall_collisions : \A j \in wall_collisions : i >= j
                 bounced  == wall_bounce(vel, walls[last])
                 rescaled == IF Norm(bounced) = 0 THEN VQuot(VScale(speed_mean, u), 2)
                             ELSE VQuot(VScale(speed_mean, bounced), 2 * Norm(bounced))
             IN  <<rescaled, VAdd(p, VScale(step, rescaled)), last>>

\* the collision sub-step: <<velocity, pos, colliding wall index or 0>> after it
collision_step(vel, p, step, J, u) ==
    LET proposed_new_pos == VAdd(p, VScale(step, vel))
        wall_collisions  == check_wall_collisions(<<p, proposed_new_pos>>, J)
    IN  IF wall_collisions = {} THEN <<vel, proposed_new_pos, 0>>
        ELSE LET first    == CHOOSE i \in wall_collisions : \A j \in wall_collisions : i <= j
                 bounced  == wall_bounce(vel, walls[first])
                 rescaled == IF Norm(bounced) = 0 THEN VQuot(VScale(speed_mean, u), 2)
                             ELSE VQuot(VScale(speed_mean, bounced), 2 * Norm(bounced))
             IN  <<rescaled, VAdd(p, VScale(step, rescaled)), first>>

\* a faulty variant of save_velocity_2D: the internal velocity is recorded
save_velocity_internal(new_pos, vel, step) == vel

\* the velocity written to history in 2D stochastic mode
save_velocity_2D(new_pos, vel, step) ==
    IF Len(history.vel) >= 1
    THEN VQuot(get_vectors_between___accounting_for_environment(
                   new_pos, history.pos[Len(history.pos)]), step)
    ELSE vel

\* (speed_new / speed) * velocity; where the fixed-point velocity is zero the
\* program's is a tiny vector of a direction the model does not know: u
rescale(vel, speed_new, u) ==
    IF Norm(vel) = 0 THEN VScale(speed_new, u)
    ELSE VQuot(VScale(speed_new, vel), Norm(vel))

\* the 2D stochastic update up to the wall repulsion: <<velocity, pos>> after it,
\* and the velocity before it.
\* d: rv (rotational velocity after its OU increment), speed_new (the speed
\* after its OU increment), drift (<<>> or <<drift_velocity, gain>>),
\* u (the direction of a vector the fixed-point arithmetic holds as zero)
steer_2D(d, step) ==
    LET v1 == rotate(velocity, d.rv * step)
        v2 == rescale(v1, d.speed_new, d.u)
        v3 == IF d.drift = <<>> THEN v2
              ELSE VAdd(v2, drift_increment(v2, d.drift[1], d.drift[2]))
    IN  [after_ou |-> v3, after_repulsion |-> wall_repulsion(v3, pos, step, d.u)]

\* the step the update proposes to check_wall_collisions
proposed_step(steered, step) ==
    <<steered.after_repulsion[2],
      VAdd(steered.after_repulsion[2], VScale(step, steered.after_repulsion[1]))>>

\* the rest of the 2D stochastic update; J: touching walls reported as colliding
update_2D(d, steered, step, J) ==
    LET col == collision_step(steered.after_repulsion[1], steered.after_repulsion[2],
                              step, J, d.u)
        p5  == IF check_if_position_is_in_environment(col[2]) THEN col[2]
               ELSE apply_boundary_conditions(col[2])
    IN  [velocity |-> col[1], pos |-> p5, rotational_velocity |-> d.rv,
         save_velocity |-> save_velocity_2D(p5, col[1], step),
         after_ou |-> steered.after_ou, after_repulsion |-> steered.after_repulsion,
         colliding_wall |-> col[3], before_boundary |-> col[2]]

-----------------------------------------------------------------------------
(* Agent.update: the 1D stochastic policy *)

\* a faulty variant of update_1D: the velocity is negated under periodic
\* boundaries too
update_1D_negating_at_every_edge(in, step) ==
    LET p1     == VAdd(pos, VScale(step, velocity))
        inside == check_if_position_is_in_environment(p1)
        v1     == IF ~inside THEN VScale(-1, velocity) ELSE velocity
        p2     == IF inside THEN p1 ELSE apply_boundary_conditions(p1)
        v2     == VAdd(v1, <<in.dv>>)
    IN  [velocity |-> v2, pos |-> p2, rotational_velocity |-> rotational_velocity,
         save_velocity |-> v2,
         after_ou |-> v2, after_repulsion |-> <<v1, p1>>, colliding_wall |-> 0,
         before_boundary |-> p1]

\* in.dv: the Ornstein-Uhlenbeck increment of the velocity
update_1D(in, step) ==
    LET p1     == VAdd(pos, VScale(step, velocity))
        inside == check_if_position_is_in_environment(p1)
        v1     == IF ~inside /\ boundary_conditions = "solid"
                  THEN VScale(-1, velocity) ELSE velocity
        p2     == IF inside THEN p1 ELSE apply_boundary_conditions(p1)
        v2     == VAdd(v1, <<in.dv>>)
    IN  [velocity |-> v2, pos |-> p2, rotational_velocity |-> rotational_velocity,
         save_velocity |-> v2,
         after_ou |-> v2, after_repulsion |-> <<v1, p1>>, colliding_wall |-> 0,
         before_boundary |-> p1]

-----------------------------------------------------------------------------
(* Agent.update: imported trajectory playback *)

RECURSIVE SeqMax(_, _)
SeqMax(q, n) == IF n = 1 THEN q[1] ELSE Max(SeqMax(q, n - 1), q[n])

RECURSIVE SeqMin(_, _)
SeqMin(q, n) == IF n = 1 THEN q[1] ELSE Min(SeqMin(q, n - 1), q[n])

\* self.pos_interp(interp_time): the interpolant passes through its knots, and
\* with times a whole number of quanta apart every query falls on a knot
pos_interp_at(interp_time) ==
    pos_interp[CHOOSE i \in DOMAIN pos_interp : i - 1 = interp_time]

\* the velocity of imported mode: the boundary-aware shift over self.dt
playback_velocity(new_pos, step) ==
    IF Len(history.vel) >= 1
    THEN IF dimensionality = "2D"
         THEN VQuot(get_vectors_between___accounting_for_environment(
                        new_pos, history.pos[Len(history.pos)]), step)
         ELSE VQuot(VSub(new_pos, history.pos[Len(history.pos)]), step)
    ELSE [i \in DOMAIN new_pos |-> 0]

\* the rotational velocity of imported mode (2D), in quarter turns
playback_rotational_velocity(vel, step) ==
    LET now    == get_angle(vel)
        before == IF Len(history.vel) >= 1
                  THEN get_angle(history.vel[Len(history.vel)]) ELSE now
        wrap   == Abs(now - before) > 2
        now2   == IF wrap /\ now > before THEN now - 4 ELSE now
        bef2   == IF wrap /\ now < before THEN before - 4 ELSE before
    IN  Quot(now2 - bef2, step)

\* a faulty variant of update_imported: the sample is not clipped to the extent
update_imported_unclipped(now, step) ==
    LET interp_time == now % SeqMax(t_interp, Len(t_interp))
        p  == pos_interp_at(interp_time)
        v  == playback_velocity(p, step)
    IN  [velocity |-> v, pos |-> p,
         rotational_velocity |-> IF dimensionality = "2D"
                                 THEN playback_rotational_velocity(v, step)
                                 ELSE rotational_velocity,
         save_velocity |-> v,
         after_ou |-> v, after_repulsion |-> <<v, p>>, colliding_wall |-> 0,
         before_boundary |-> p]

\* a faulty variant of update_imported: past its end the trajectory is held at
\* its last sample instead of looping
update_imported_held_at_end(now, step) ==
    LET interp_time == Min(now, SeqMax(t_interp, Len(t_interp)))
        p  == pos_interp_at(interp_time)
        ex == extent
        p1 == IF dimensionality = "2D"
              THEN <<Min(Max(p[1], ex[1]), ex[2]), Min(Max(p[2], ex[3]), ex[4])>>
              ELSE <<Min(Max(p[1], ex[1]), ex[2])>>
        v  == playback_velocity(p1, step)
    IN  [velocity |-> v, pos |-> p1,
         rotational_velocity |-> IF dimensionality = "2D"
                                 THEN playback_rotational_velocity(v, step)
                                 ELSE rotational_velocity,
         save_velocity |-> v,
         after_ou |-> v, after_repulsion |-> <<v, p1>>, colliding_wall |-> 0,
         before_boundary |-> p]

\* the imported-trajectory branch of update: the sample at t % max(t_interp),
\* clipped to the extent
update_imported(now, step) ==
    LET interp_time == now % SeqMax(t_interp, Len(t_interp))
        p  == pos_interp_at(interp_time)
        ex == extent
        p1 == IF dimensionality = "2D"
              THEN <<Min(Max(p[1], ex[1]), ex[2]), Min(Max(p[2], ex[3]), ex[4])>>
              ELSE <<Min(Max(p[1], ex[1]), ex[2])>>
        v  == playback_velocity(p1, step)
    IN  [velocity |-> v, pos |-> p1,
         rotational_velocity |-> IF dimensionality = "2D"
                                 THEN playback_rotational_velocity(v, step)
                                 ELSE rotational_velocity,
         save_velocity |-> v,
         after_ou |-> v, after_repulsion |-> <<v, p1>>, colliding_wall |-> 0,
         before_boundary |-> p]

-----------------------------------------------------------------------------
(* Inputs *)

ScaleSet == {24}

AspectSet == {1, 2}

\* walls a caller adds (scale 24): a wall from the bottom edge to the centre,
\* a wall with both ends inside, a wall from the bottom edge to the top edge
WallSet ==
    { <<<<12, 0>>, <<12, 12>>>>,
      <<<<6, 16>>, <<18, 16>>>>,
      <<<<12, 0>>, <<12, 24>>>> }

\* positions handed to the vector and distance queries
QueryPositions ==
    IF dimensionality = "1D" THEN { <<2>>, <<11>>, <<14>>, <<22>> }
    ELSE { <<6, 6>>, <<18, 6>>, <<6, 12>>, <<18, 12>>, <<6, 20>>, <<18, 20>>,
           <<2, 6>>, <<aspect * scale - 2, 6>>, <<-6, 6>> }

\* positions handed to check_if_position_is_in_environment and
\* apply_boundary_conditions: inside, on an edge, on a corner, beyond an edge
TestPositions ==
    IF dimensionality = "1D"
    THEN { <<-3>>, <<0>>, <<1>>, <<12>>, <<scale - 1>>, <<scale>>, <<scale + 6>> }
    ELSE { <<6, 6>>, <<1, 1>>, <<aspect * scale - 1, scale - 1>>,
           <<0, 6>>, <<6, 0>>, <<aspect * scale, 6>>, <<6, scale>>, <<0, 0>>,
           <<aspect * scale, scale>>, <<scale, 6>>,
           <<-6, 6>>, <<6, -3>>, <<aspect * scale + 6, 12>>, <<6, scale + 4>>,
           <<-2, scale + 2>> }

\* proposed steps handed to check_wall_collisions: clear of every wall, across
\* an interior wall, ending on one, past the tip of one, out of the extent
ProposedSteps ==
    IF dimensionality = "1D" THEN { <<<<4>>, <<8>>>> }
    ELSE { <<<<6, 6>>, <<10, 10>>>>, <<<<6, 6>>, <<18, 6>>>>, <<<<6, 6>>, <<12, 6>>>>,
           <<<<6, 14>>, <<18, 14>>>>, <<<<6, 12>>, <<18, 12>>>>,
           <<<<20, 20>>, <<28, 20>>>>, <<<<6, 20>>, <<6, 23>>>>,
           <<<<6, 14>>, <<6, 18>>>>, <<<<8, 14>>, <<8, 18>>>>, <<<<20, 20>>, <<20, 24>>>> }

\* walls handed to wall_bounce: along an axis, along the diagonal, and two of
\* slope 4/3 and -3/4 (of length 5)
BounceWalls ==
    { <<<<0, 0>>, <<0, 24>>>>, <<<<0, 24>>, <<24, 24>>>>, <<<<12, 0>>, <<12, 12>>>>,
      <<<<18, 16>>, <<6, 16>>>>, <<<<0, 0>>, <<12, 12>>>>,
      <<<<6, 8>>, <<9, 12>>>>, <<<<6, 12>>, <<10, 9>>>> }

\* velocities handed to wall_bounce with a wall: those whose reflection the
\* fixed-point arithmetic represents without rounding
BounceVelocities(wall) ==
    LET w0 == VSub(wall[2], wall[1])
    IN  IF w0[1] = 0 \/ w0[2] = 0 \/ Abs(w0[1]) = Abs(w0[2])
        THEN { <<-6, -8>>, <<10, 0>>, <<0, -5>>, <<7, 3>>, <<-3, 9>>, <<0, 0>> }
        ELSE { <<25, 0>>, <<0, -25>>, <<-50, 25>>, <<3, 4>>, <<4, -3>>, <<-8, 6>> }

\* pairs of segments handed to vector_intercepts: crossing, apart, meeting end
\* to side, meeting end to end, parallel and apart, along the same line
SegmentPairs ==
    { <<<<<<12, 0>>, <<12, 12>>>>, <<<<6, 6>>, <<18, 6>>>>>>,
      <<<<<<12, 0>>, <<12, 12>>>>, <<<<6, 6>>, <<10, 10>>>>>>,
      <<<<<<12, 0>>, <<12, 12>>>>, <<<<6, 6>>, <<12, 6>>>>>>,
      <<<<<<12, 0>>, <<12, 12>>>>, <<<<6, 12>>, <<18, 12>>>>>>,
      <<<<<<12, 0>>, <<12, 12>>>>, <<<<12, 12>>, <<18, 16>>>>>>,
      <<<<<<12, 0>>, <<12, 12>>>>, <<<<6, 0>>, <<6, 12>>>>>>,
      <<<<<<12, 0>>, <<12, 12>>>>, <<<<12, 6>>, <<12, 18>>>>>>,
      <<<<<<12, 0>>, <<12, 12>>>>, <<<<12, 14>>, <<12, 18>>>>>>,
      <<<<<<6, 16>>, <<18, 16>>>>, <<<<8, 14>>, <<10, 20>>>>>>,
      <<<<<<6, 16>>, <<18, 16>>>>, <<<<4, 14>>, <<5, 20>>>>>> }

\* points and segments handed to shortest_vectors_from_points_to_lines: the foot
\* of the perpendicular falls inside the segment, on an end, beyond an end, and
\* the point lies on the segment or on its line (for the diagonal segment the
\* points are those whose foot the fixed-point arithmetic holds exactly)
ShortestVectorArgs ==
    { <<pt, seg>> :
        pt  \in { <<6, 6>>, <<6, 14>>, <<18, 20>>, <<12, 6>>, <<12, 20>>, <<6, 12>>,
                  <<20, 4>>, <<2, 16>>, <<22, 18>> },
        seg \in { <<<<12, 0>>, <<12, 12>>>>, <<<<18, 16>>, <<6, 16>>>>,
                  <<<<0, 0>>, <<12, 12>>>>, <<<<0, 24>>, <<24, 24>>>> } }

WallGeometries == {"euclidean", "line_of_sight", "geodesic"}

\* the start positions sample_positions draws, and the start velocities: in 2D
\* speed_std (0.08 m/s, 10 in the model's units) along a random direction, in
\* 1D speed_mean
StartPositions(dim) ==
    IF dim = "1D" THEN { <<4>>, <<20>> } ELSE { <<4, 12>>, <<20, 20>> }

StartVelocities(dim) ==
    IF dim = "1D" THEN { <<speed_mean>> } ELSE { <<-6, -8>> }

\* <<thigmotaxis, walls_repel>> as configured
RepulsionSettings(dim) ==
    IF dim = "1D" THEN { <<1, TRUE>> }
    ELSE { <<0, TRUE>>, <<1, TRUE>>, <<2, TRUE>>, <<1, FALSE>> }

\* the dt argument of update: <<>> for None
DtArgs == { <<>>, <<2>> }

\* the walls added while an agent's simulation is set up
SetupWalls == { <<<<12, 0>>, <<12, 12>>>> }

\* the draws of the Ornstein-Uhlenbeck increments of a 2D update (rv: the
\* rotational velocity after its increment, speed_new: the speed after its
\* increment) with the drift argument (<<>> for None, else <<drift_velocity,
\* theta * dt in halves>>)
DrawSet ==
    { [rv |-> 0, speed_new |-> 10, drift |-> <<>>],
      [rv |-> 1, speed_new |-> 5, drift |-> <<>>],
      [rv |-> 0, speed_new |-> 10, drift |-> <<<<10, 0>>, 2>>] }

\* the draws of the Ornstein-Uhlenbeck increment of a 1D update
DvSet == {0, -4}

UnitDirs == { <<1, 0>>, <<0, 1>>, <<-1, 0>>, <<0, -1>> }

\* arguments of import_trajectory: times, and positions as an array of
\* rows x cols numbers (data, row by row)
ImportArgs ==
    { \* five 2D points; the third lies on the right edge for aspect 1, the fourth outside
      [dataset |-> "none", times |-> <<3, 4, 5, 6, 7>>, rows |-> 5, cols |-> 2,
       data |-> <<4, 4, 20, 4, 24, 20, 30, 12, 4, 20>>],
      \* four 1D points, the third on the edge
      [dataset |-> "none", times |-> <<0, 1, 2, 3>>, rows |-> 4, cols |-> 1,
       data |-> <<4, 12, 24, 8>>],
      \* five scalars: not a whole number of 2D points
      [dataset |-> "none", times |-> <<0, 1, 2, 3, 4>>, rows |-> 5, cols |-> 1,
       data |-> <<4, 8, 12, 16, 20>>],
      \* more positions than times
      [dataset |-> "none", times |-> <<0, 1, 2>>, rows |-> 4, cols |-> 1,
       data |-> <<4, 8, 12, 16>>],
      \* a dataset whose file does not exist
      [dataset |-> "missing", times |-> <<>>, rows |-> 0, cols |-> 1, data |-> <<>>] }

-----------------------------------------------------------------------------
(* Initial states: Environment.__init__ followed by Agent.__init__ *)

InitEnvironment ==
    /\ dimensionality \in {"1D", "2D"}
    /\ boundary_conditions \in {"solid", "periodic"}
    /\ scale \in ScaleSet
    /\ aspect \in (IF dimensionality = "1D" THEN {1} ELSE AspectSet)
    /\ walls = initial_walls(dimensionality, boundary_conditions, scale, aspect)

InitAgent ==
    /\ t = 0
    /\ dt = 1
    /\ pos \in StartPositions(dimensionality)
    /\ velocity \in StartVelocities(dimensionality)
    /\ rotational_velocity = 0
    /\ distance_travelled = 0
    /\ use_imported_trajectory = FALSE
    /\ t_interp = <<>>
    /\ pos_interp = <<>>
    /\ history = [t |-> <<>>, pos |-> <<>>, vel |-> <<>>, rot_vel |-> <<>>]
    /\ \E r \in RepulsionSettings(dimensionality) :
          thigmotaxis = r[1] /\ walls_repel = r[2]

Init ==
    /\ InitEnvironment
    /\ InitAgent
    /\ ret = NoCall
    /\ ncalls = [add_wall |-> 0, update |-> 0]

-----------------------------------------------------------------------------
(* Environment operations *)

Call(op, args, result) ==
    [op |-> op, ok |-> result.ok, error |-> result.error, args |-> args,
     value |-> result.value]

\* a faulty variant of add_wall: the new wall is put in front
add_wall_in_front(wall) ==
    IF dimensionality # "2D" THEN walls
    ELSE <<wall>> \o walls

\* a faulty variant of add_wall: the assertion on the dimensionality is missing
add_wall_unasserted(wall) ==
    IF Len(walls) = 0 THEN <<wall>>
    ELSE walls \o <<wall>>

\* add_wall: assert 2D, then append (or set, when there is no wall yet)
add_wall(wall) ==
    IF dimensionality # "2D" THEN walls
    ELSE IF Len(walls) = 0 THEN <<wall>>
    ELSE walls \o <<wall>>

AddWall ==
    /\ ncalls.add_wall < MaxAddedWalls
    /\ \E wall \in WallSet :
          /\ walls' = add_wall(wall)
          /\ ret' = Call("add_wall", wall,
                         IF dimensionality # "2D" THEN Raised("AssertionError")
                         ELSE Returned(<<>>))
    /\ ncalls' = [ncalls EXCEPT !.add_wall = @ + 1]
    /\ UNCHANGED <<dimensionality, boundary_conditions, scale, aspect, agentVars>>

GetVectors ==
    /\ \E pos1 \in QueryPositions, pos2 \in QueryPositions :
          ret' = Call("get_vectors", <<pos1, pos2>>,
                      Returned(get_vectors_between___accounting_for_environment(pos1, pos2)))
    /\ UNCHANGED <<envVars, agentVars, ncalls>>

GetDistances ==
    /\ \E pos1 \in QueryPositions, pos2 \in QueryPositions, g \in WallGeometries :
          \E J \in SUBSET touching(internal_walls, <<pos1, pos2>>) :
             ret' = Call("get_distances", <<pos1, pos2, g, J>>,
                         get_distances_between___accounting_for_environment(pos1, pos2, g, J))
    /\ UNCHANGED <<envVars, agentVars, ncalls>>

CheckPosition ==
    /\ \E p \in TestPositions :
          ret' = Call("check_if_position_is_in_environment", <<p>>,
                      Returned(check_if_position_is_in_environment(p)))
    /\ UNCHANGED <<envVars, agentVars, ncalls>>

\* check_wall_collisions(proposed_step); the result is the set of the indices of
\* the walls whose entry in the returned boolean list is True
CheckWallCollisions ==
    /\ \E proposed \in ProposedSteps :
       \E J \in SUBSET (IF dimensionality = "1D" THEN {} ELSE touching(walls, proposed)) :
          ret' = Call("check_wall_collisions", <<proposed, J>>,
                      Returned(check_wall_collisions(proposed, J)))
    /\ UNCHANGED <<envVars, agentVars, ncalls>>

ApplyBoundaryConditions ==
    /\ \E p \in TestPositions :
          ret' = Call("apply_boundary_conditions", <<p>>,
                      Returned(apply_boundary_conditions(p)))
    /\ UNCHANGED <<envVars, agentVars, ncalls>>

\* vector_intercepts(a, b, return_collisions=True) for one pair of segments;
\* jit: what the random perturbation makes of a pair that only touches
VectorIntercepts ==
    /\ \E pair \in SegmentPairs :
       \E jit \in (IF segments_touch(pair[1], pair[2]) THEN BOOLEAN ELSE {FALSE}) :
          ret' = Call("vector_intercepts", <<pair[1], pair[2], jit>>,
                      Returned(vector_intercepts(pair[1], pair[2], jit)))
    /\ UNCHANGED <<envVars, agentVars, ncalls>>

\* shortest_vectors_from_points_to_lines(positions, vectors) for one point and
\* one segment
ShortestVectors ==
    /\ \E a \in ShortestVectorArgs :
          ret' = Call("shortest_vectors_from_points_to_lines", a,
                      Returned(shortest_vectors_from_points_to_lines(a[1], a[2])))
    /\ UNCHANGED <<envVars, agentVars, ncalls>>

\* wall_bounce(current_velocity, wall)
WallBounce ==
    /\ \E wall \in BounceWalls :
       \E current_velocity \in BounceVelocities(wall) :
          ret' = Call("wall_bounce", <<current_velocity, wall>>,
                      Returned(wall_bounce(current_velocity, wall)))
    /\ UNCHANGED <<envVars, agentVars, ncalls>>

-----------------------------------------------------------------------------
(* Agent operations *)

\* a wall at distance zero, or a velocity of length zero, in the fixed-point
\* arithmetic: the program's value has a direction the model does not know
Degenerate ==
    \/ velocity = <<0, 0>>
    \/ walls_repel /\ \E i \in DOMAIN walls :
                         shortest_vectors_from_points_to_lines(pos, walls[i]) = <<0, 0>>

\* the inputs of a 2D stochastic update: the random draws and the drift argument
Draws2D ==
    { [rv |-> d.rv, speed_new |-> d.speed_new, drift |-> d.drift, u |-> u] :
        d \in DrawSet, u \in IF Degenerate THEN UnitDirs ELSE { <<1, 0>> } }

\* a faulty variant of Commit: the position is appended by reference, so every
\* recorded position follows the agent's
Commit_appending_position_by_reference(args, step, new) ==
    /\ pos' = new.pos
    /\ velocity' = new.velocity
    /\ rotational_velocity' = new.rotational_velocity
    /\ distance_travelled' =
          IF Len(history.pos) >= 1
          THEN distance_travelled + Norm(VSub(new.pos, history.pos[Len(history.pos)]))
          ELSE distance_travelled
    /\ history' = [t |-> Append(history.t, t + step),
                   pos |-> [k \in 1..(Len(history.pos) + 1) |-> new.pos],
                   vel |-> Append(history.vel, new.save_velocity),
                   rot_vel |-> IF dimensionality = "2D"
                               THEN Append(history.rot_vel, new.rotational_velocity)
                               ELSE history.rot_vel]
    /\ ret' = Call("update", args, Returned(new))

\* a faulty variant of Commit: the distance travelled is boundary-aware
Commit_with_boundary_aware_distance(args, step, new) ==
    /\ pos' = new.pos
    /\ velocity' = new.velocity
    /\ rotational_velocity' = new.rotational_velocity
    /\ distance_travelled' =
          IF Len(history.pos) >= 1
          THEN distance_travelled +
               Norm(get_vectors_between___accounting_for_environment(
                        new.pos, history.pos[Len(history.pos)]))
          ELSE distance_travelled
    /\ history' = [t |-> Append(history.t, t + step),
                   pos |-> Append(history.pos, new.pos),
                   vel |-> Append(history.vel, new.save_velocity),
                   rot_vel |-> IF dimensionality = "2D"
                               THEN Append(history.rot_vel, new.rotational_velocity)
                               ELSE history.rot_vel]
    /\ ret' = Call("update", args, Returned(new))

\* the end of a successful update: the distance, the history, the result
Commit(args, step, new) ==
    /\ pos' = new.pos
    /\ velocity' = new.velocity
    /\ rotational_velocity' = new.rotational_velocity
    /\ distance_travelled' =
          IF Len(history.pos) >= 1
          THEN distance_travelled + Norm(VSub(new.pos, history.pos[Len(history.pos)]))
          ELSE distance_travelled
    /\ history' = [t |-> Append(history.t, t + step),
                   pos |-> Append(history.pos, new.pos),
                   vel |-> Append(history.vel, new.save_velocity),
                   rot_vel |-> IF dimensionality = "2D"
                               THEN Append(history.rot_vel, new.rotational_velocity)
                               ELSE history.rot_vel]
    /\ ret' = Call("update", args, Returned(new))

\* update(dt, drift_velocity, drift_to_random_strength_ratio)
Update ==
    /\ ncalls.update < MaxSteps
    /\ ncalls' = [ncalls EXCEPT !.update = @ + 1]
    /\ \E dt_arg \in DtArgs :
          LET step == IF dt_arg = <<>> THEN dt ELSE dt_arg[1]
          IN  /\ dt' = step
              /\ t' = t + step
              /\ IF ~use_imported_trajectory
                 THEN IF dimensionality = "2D"
                      THEN \E d \in Draws2D :
                           \E steered \in {steer_2D(d, step)} :
                           \E J \in SUBSET touching(walls, proposed_step(steered, step)) :
                           \E new \in {update_2D(d, steered, step, J)} :
                              Commit(<<dt_arg, d, J>>, step, new)
                      ELSE \E dv \in DvSet :
                           \E new \in {update_1D([dv |-> dv], step)} :
                              Commit(<<dt_arg, [dv |-> dv]>>, step, new)
                 ELSE IF t_interp = <<>> \/ pos_interp = <<>>
                      THEN \* self.t_interp / self.pos_interp: AttributeError
                           /\ ret' = Call("update", <<dt_arg>>, Raised("AttributeError"))
                           /\ UNCHANGED <<pos, velocity, rotational_velocity,
                                          distance_travelled, history>>
                      ELSE \E new \in {update_imported(t + step, step)} :
                              Commit(<<dt_arg>>, step, new)
    /\ UNCHANGED <<envVars, use_imported_trajectory, t_interp, pos_interp,
                   thigmotaxis, walls_repel>>

\* positions.reshape(-1, n): the rows of n numbers, <<>> when the data do not divide
reshape(data, n) ==
    IF Len(data) % n # 0 THEN <<>>
    ELSE [i \in 1..(Len(data) \div n) |-> [k \in 1..n |-> data[(i - 1) * n + k]]]

\* interp1d(times, positions, axis=0, kind="cubic") accepts as many rows as
\* times, and at least four of them
interp1d_accepts(times, positions) ==
    Len(positions) = Len(times) /\ Len(times) >= 4

\* import_trajectory(times, positions, dataset)
ImportTrajectory ==
    /\ \E a \in ImportArgs :
          LET n         == IF dimensionality = "2D" THEN 2 ELSE 1
              positions == reshape(a.data, n)
              times     == [i \in DOMAIN a.times |-> a.times[i] - SeqMin(a.times, Len(a.times))]
              unchanged == UNCHANGED <<use_imported_trajectory, t_interp, pos_interp>>
          IN  IF boundary_conditions # "solid"
              THEN ret' = Call("import_trajectory", a, Raised("AssertionError")) /\ unchanged
              ELSE IF a.dataset # "none"
              THEN \* FileNotFoundError: "IMPORT FAILED ...", return
                   ret' = Call("import_trajectory", a, Returned(<<>>)) /\ unchanged
              ELSE IF a.rows # Len(a.times)
              THEN ret' = Call("import_trajectory", a, Raised("AssertionError")) /\ unchanged
              ELSE /\ use_imported_trajectory' = TRUE
                   /\ IF positions = <<>>
                      THEN /\ ret' = Call("import_trajectory", a, Raised("ValueError"))
                           /\ UNCHANGED <<t_interp, pos_interp>>
                      ELSE /\ t_interp' = times
                           /\ IF interp1d_accepts(times, positions)
                              THEN /\ pos_interp' = positions
                                   /\ ret' = Call("import_trajectory", a, Returned(<<>>))
                              ELSE /\ ret' = Call("import_trajectory", a, Raised("ValueError"))
                                   /\ UNCHANGED pos_interp
    /\ UNCHANGED <<envVars, t, dt, pos, velocity, rotational_velocity, distance_travelled,
                   history, thigmotaxis, walls_repel, ncalls>>

-----------------------------------------------------------------------------
(* Specifications *)

\* the stochastic policy: walls are added while the simulation is set up,
\* then the agent is stepped
Next ==
    \/ (AddWall /\ ret.op # "update" /\ ret'.args \in SetupWalls)
    \/ Update

Spec == Init /\ [][Next]_vars

\* trajectory import and playback beside the stochastic policy
NextImport ==
    \/ ImportTrajectory
    \/ Update

SpecImport == Init /\ [][NextImport]_vars

\* the environment and its queries, with one agent per environment left as
\* constructed. A query changes nothing but the record of the last call, so a
\* query made after another reaches the states a single query reaches: queries
\* are explored from the states the constructor and add_wall leave
InitEnv == Init /\ pos[1] = 4 /\ thigmotaxis = 1 /\ walls_repel

NextEnv ==
    \/ AddWall
    \/ (ret.op \in {"none", "add_wall"} /\ GetVectors)
    \/ (ret.op \in {"none", "add_wall"} /\ GetDistances)
    \/ (ret.op \in {"none", "add_wall"} /\ CheckPosition)
    \/ (ret.op \in {"none", "add_wall"} /\ ApplyBoundaryConditions)
    \/ (ret.op \in {"none", "add_wall"} /\ CheckWallCollisions)
    \/ (ret.op \in {"none", "add_wall"} /\ WallBounce)
    \/ (ret.op \in {"none", "add_wall"} /\ VectorIntercepts)
    \/ (ret.op \in {"none", "add_wall"} /\ ShortestVectors)

SpecEnv == InitEnv /\ [][NextEnv]_vars

-----------------------------------------------------------------------------
(* Properties *)

Solid2D == dimensionality = "2D" /\ boundary_conditions = "solid"

\* every coordinate strictly between its extent bounds
StrictlyInside(p) ==
    /\ 0 < p[1] /\ p[1] < (IF dimensionality = "2D" THEN aspect * scale ELSE scale)
    /\ dimensionality = "2D" => (0 < p[2] /\ p[2] < scale)

\* every coordinate within its extent bounds, the bounds included
InClosedExtent(p) ==
    /\ 0 <= p[1] /\ p[1] <= (IF dimensionality = "2D" THEN aspect * scale ELSE scale)
    /\ dimensionality = "2D" => (0 <= p[2] /\ p[2] <= scale)

\* every coordinate within its extent bounds, the upper bound excluded
InHalfOpenExtent(p) ==
    /\ 0 <= p[1] /\ p[1] < (IF dimensionality = "2D" THEN aspect * scale ELSE scale)
    /\ dimensionality = "2D" => (0 <= p[2] /\ p[2] < scale)

\* the last call was the distance query with this wall_geometry
Queried(g) == ret.op = "get_distances" /\ ret.args[3] = g

\* the straight-line distance of the last distance query's pair
QueriedEuclidean == Norm(VSub(ret.args[1], ret.args[2]))

\* the interpolants of playback are missing
NoInterpolant == t_interp = <<>> \/ pos_interp = <<>>

\* C1 (as amended): after every successful update the position is strictly
\* inside the environment in stochastic mode under solid boundaries, within
\* [min, max) on every axis in stochastic mode under periodic boundaries, and
\* within the closed extent in playback mode; an update fails only for the
\* missing interpolants of playback, never because of the position.
C1_PositionStaysInExtent ==
    ret.op = "update" =>
        IF ret.ok
        THEN IF use_imported_trajectory THEN InClosedExtent(pos)
             ELSE IF boundary_conditions = "solid" THEN StrictlyInside(pos)
             ELSE InHalfOpenExtent(pos)
        ELSE /\ ret.error = "AttributeError"
             /\ use_imported_trajectory /\ NoInterpolant

\* C1 witness: a playback update whose sample lay outside the environment and
\* was clipped onto an edge of the extent
C1_Witness ==
    /\ ret.op = "update" /\ ret.ok /\ use_imported_trajectory
    /\ ~InClosedExtent(ret.value.before_boundary)
    /\ InClosedExtent(pos) /\ ~StrictlyInside(pos)

\* C1 as stated: after every update, in every mode and under both boundary
\* conditions, the position passes the strict interior test.
C1_AsStated ==
    (ret.op = "update" /\ ret.ok) => check_if_position_is_in_environment(pos)

\* C2: in a solid 2D environment without interior walls, under the stochastic
\* policy, every position recorded in history lies in
\* [0, aspect*scale] x [0, scale].
C2_HistoryWithinExtent ==
    (Solid2D /\ Len(walls) = 4 /\ ~use_imported_trajectory) =>
        \A i \in DOMAIN history.pos :
            /\ 0 <= history.pos[i][1] /\ history.pos[i][1] <= aspect * scale
            /\ 0 <= history.pos[i][2] /\ history.pos[i][2] <= scale

\* C2 witness: two recorded updates, the last of which bounced off a wall, left
\* the extent all the same and was brought back by the boundary conditions
C2_Witness ==
    /\ Solid2D /\ Len(walls) = 4 /\ ~use_imported_trajectory
    /\ Len(history.pos) = 2
    /\ ret.op = "update" /\ ret.ok
    /\ ret.value.colliding_wall # 0
    /\ ~InClosedExtent(ret.value.before_boundary)

\* C3 as stated: under periodic boundaries every component of a vector returned
\* by get_vectors_between___accounting_for_environment is at most scale / 2 in
\* absolute value (here for two positions inside the environment).
C3_ComponentsWithinHalfScale ==
    (/\ boundary_conditions = "periodic" /\ ret.op = "get_vectors"
     /\ StrictlyInside(ret.args[1]) /\ StrictlyInside(ret.args[2]))
    => \A i \in DOMAIN ret.value : 2 * Abs(ret.value[i]) <= scale

\* C3 witness: aspect 2, two positions 44 apart along x in an arena 48 wide:
\* the fold by scale = 24 returns a component of 20 > 12
C3_Witness ==
    /\ boundary_conditions = "periodic" /\ aspect = 2
    /\ ret.op = "get_vectors"
    /\ ret.args = << <<2, 6>>, <<46, 6>> >>
    /\ ret.value = <<-20, 0>>

\* C4: in a solid 2D environment walls[0..3] are the four bounding edges in
\* their original order, every add_wall call appends its wall at the end of the
\* list, and no other step changes the list.
C4_WallsOnlyAppended ==
    /\ Solid2D => walls = << <<<<0, 0>>, <<0, scale>>>>,
                             <<<<0, scale>>, <<aspect * scale, scale>>>>,
                             <<<<aspect * scale, scale>>, <<aspect * scale, 0>>>>,
                             <<<<aspect * scale, 0>>, <<0, 0>>>> >>
    /\ [][Solid2D =>
            /\ SubSeq(walls', 1, 4) = SubSeq(walls, 1, 4)
            /\ IF ncalls'.add_wall = ncalls.add_wall + 1
               THEN /\ ret'.op = "add_wall" /\ ret'.ok
                    /\ Len(walls') = Len(walls) + 1
                    /\ walls'[Len(walls')] = ret'.args
                    /\ SubSeq(walls', 1, Len(walls)) = walls
               ELSE walls' = walls]_vars

\* C4 witness: two different walls added to a solid 2D environment
C4_Witness ==
    /\ Solid2D /\ ret.op = "add_wall" /\ ncalls.add_wall = 2
    /\ Len(walls) = 6 /\ walls[5] # walls[6]

\* C5 as stated: an update either completes, advancing t by dt and appending one
\* record to the history, or fails with t, dt, pos, velocity,
\* distance_travelled and history as they were.
C5_UpdateAtomic ==
    [][ncalls'.update = ncalls.update + 1 =>
          IF ret'.ok
          THEN /\ t' = t + dt'
               /\ Len(history'.t) = Len(history.t) + 1
          ELSE UNCHANGED <<t, dt, pos, velocity, distance_travelled, history>>]_vars

\* C5 witness: an update that failed, and yet the elapsed time has advanced
\* with nothing recorded
C5_Witness ==
    /\ ret.op = "update" /\ ~ret.ok
    /\ ncalls.update = 1 /\ t > 0 /\ history.t = <<>>

\* C6 (as amended): under periodic boundaries a line_of_sight or geodesic
\* distance query leaves the environment unchanged and, in 2D, fails with an
\* assertion error; in 1D the wall_geometry is ignored and the query returns
\* the periodic distance min(|x1 - x2|, scale - |x1 - x2|).
C6_PeriodicGeometryQuery ==
    [][(/\ boundary_conditions = "periodic"
        /\ ret'.op = "get_distances"
        /\ ret'.args[3] \in {"line_of_sight", "geodesic"})
       => /\ UNCHANGED envVars
          /\ IF dimensionality = "2D"
             THEN ~ret'.ok /\ ret'.error = "AssertionError"
             ELSE LET c == Abs(ret'.args[1][1] - ret'.args[2][1])
                  IN  ret'.ok /\ ret'.value = Min(c, scale - c)]_vars

\* C6 witness: a line_of_sight query that failed in a periodic 2D environment
C6_Witness ==
    /\ boundary_conditions = "periodic" /\ dimensionality = "2D"
    /\ Queried("line_of_sight") /\ ~ret.ok

\* C6 as stated: under periodic boundaries, whatever the dimensionality, a
\* line_of_sight or geodesic distance query fails.
C6_AsStated ==
    (/\ boundary_conditions = "periodic"
     /\ (Queried("line_of_sight") \/ Queried("geodesic")))
    => ~ret.ok

\* C7: in a solid 2D environment with more than 5 walls every geodesic distance
\* query fails with an assertion error, and every euclidean and line_of_sight
\* query succeeds.
C7_GeodesicNeedsOneInteriorWall ==
    (Solid2D /\ Len(walls) > 5 /\ ret.op = "get_distances") =>
        IF ret.args[3] = "geodesic"
        THEN ~ret.ok /\ ret.error = "AssertionError"
        ELSE ret.ok

\* C7 witness: a geodesic query that failed on two interior walls
C7_Witness ==
    /\ Solid2D /\ Len(walls) = 6
    /\ Queried("geodesic") /\ ~ret.ok

\* C8: in a 1D environment add_wall fails with an assertion error and the wall
\* list is empty in every state, whatever was called before.
C8_NoWallsIn1D ==
    dimensionality = "1D" =>
        /\ walls = <<>>
        /\ ret.op = "add_wall" => (~ret.ok /\ ret.error = "AssertionError")

\* C8 witness: add_wall called on a 1D environment, twice
C8_Witness ==
    /\ dimensionality = "1D" /\ ret.op = "add_wall" /\ ~ret.ok
    /\ ncalls.add_wall = 2

\* an import that did not take place: an error raised, or the missing data file
\* reported
ImportFailed(r) == r.op = "import_trajectory" /\ (~r.ok \/ r.args.dataset = "missing")

\* C9 as stated: an import_trajectory that fails leaves use_imported_trajectory
\* false, and the update that follows it succeeds.
C9_FailedImportKeepsStochasticMode ==
    [][/\ (ImportFailed(ret') /\ ~use_imported_trajectory) => ~use_imported_trajectory'
       /\ (ImportFailed(ret) /\ ret'.op = "update") => ret'.ok]_vars

\* C9 witness: positions that cannot be shaped into 2D points: the import
\* raised, and the agent is in playback mode without interpolants
C9_Witness ==
    /\ ret.op = "import_trajectory" /\ ret.error = "ValueError"
    /\ dimensionality = "2D" /\ ret.args.cols = 1
    /\ use_imported_trajectory /\ NoInterpolant

\* C10: in a solid 2D environment a line_of_sight query returns the sentinel
\* exactly when the collision test reports the pair's segment as colliding with
\* an interior wall (walls[4:]), and the euclidean distance otherwise: a segment
\* that crosses an interior wall gets the sentinel, a segment that meets no
\* interior wall gets the euclidean distance whatever bounding walls it crosses.
C10_LineOfSightSentinel ==
    (Solid2D /\ Queried("line_of_sight")) =>
        LET segment == <<ret.args[1], ret.args[2]>>
            J       == ret.args[4]
            inner   == {i \in 1..Len(walls) : i > 4}
        IN  /\ ret.ok
            /\ ret.value = LineOfSightSentinel <=>
                   \E i \in inner : vector_intercepts(segment, walls[i], (i - 4) \in J)
            /\ ret.value # LineOfSightSentinel => ret.value = QueriedEuclidean
            /\ (\E i \in inner : exact_collision(segment, walls[i]))
                   => ret.value = LineOfSightSentinel
            /\ (\A i \in inner : ~segments_meet(segment, walls[i]))
                   => ret.value = QueriedEuclidean

\* C10 witness: a segment that crosses an interior wall, and a bounding wall
\* too, gets the sentinel
C10_Witness ==
    /\ Solid2D /\ Queried("line_of_sight") /\ ret.ok
    /\ \E i \in 5..Len(walls) : exact_collision(<<ret.args[1], ret.args[2]>>, walls[i])
    /\ \E i \in 1..4 : exact_collision(<<ret.args[1], ret.args[2]>>, walls[i])
    /\ ret.value = LineOfSightSentinel

\* the endpoints of segment w that are strictly inside the environment
InteriorEndpoints(w) == {w[k] : k \in {k \in 1..2 : StrictlyInside(w[k])}}

\* the length of the path from p1 to p2 through the point e
Via(p1, e, p2) == Norm(VSub(p1, e)) + Norm(VSub(e, p2))

\* C11 as stated: with exactly one interior wall W a geodesic query returns, for
\* a pair whose segment the collision test reports as crossing W, the least
\* dist(p1,E) + dist(E,p2) over the endpoints E of W strictly inside the
\* environment, and for every other pair the euclidean distance.
C11_GeodesicAroundOneWall ==
    (Solid2D /\ Len(walls) = 5 /\ Queried("geodesic")) =>
        LET p1 == ret.args[1]
            p2 == ret.args[2]
            W  == walls[5]
        IN  /\ ret.ok
            /\ IF vector_intercepts(<<p1, p2>>, W, 1 \in ret.args[4])
               THEN /\ \E e \in InteriorEndpoints(W) : ret.value = Via(p1, e, p2)
                    /\ \A e \in InteriorEndpoints(W) : ret.value <= Via(p1, e, p2)
               ELSE ret.value = QueriedEuclidean

\* C11 witness: the interior wall runs from the bottom edge to the top edge, the
\* pair lies on one side of it, and the geodesic query raised instead of
\* returning the euclidean distance
C11_Witness ==
    /\ Solid2D /\ Len(walls) = 5 /\ Queried("geodesic")
    /\ walls[5] = <<<<12, 0>>, <<12, 24>>>>
    /\ ret.args[1] = <<6, 6>> /\ ret.args[2] = <<6, 12>>
    /\ ~ret.ok /\ ret.error = "ValueError"

\* C11, where the interior wall has an endpoint strictly inside the
\* environment: the geodesic query returns the distances C11 states
C11_HoldsWithInteriorEndpoint ==
    (/\ Solid2D /\ Len(walls) = 5 /\ Queried("geodesic")
     /\ InteriorEndpoints(walls[5]) # {})
    => C11_GeodesicAroundOneWall

\* C12: in a solid 2D environment with the four bounding walls alone, a geodesic
\* query returns the euclidean distance of every pair.
C12_GeodesicWithoutInteriorWall ==
    (Solid2D /\ Len(walls) = 4 /\ Queried("geodesic")) =>
        ret.ok /\ ret.value = QueriedEuclidean

\* C12 witness: a geodesic query without interior walls on a pair whose segment
\* crosses a bounding wall
C12_Witness ==
    /\ Solid2D /\ Len(walls) = 4 /\ Queried("geodesic") /\ ret.ok
    /\ \E i \in 1..4 : exact_collision(<<ret.args[1], ret.args[2]>>, walls[i])
    /\ ret.value = QueriedEuclidean /\ ret.value > 0

\* the lower and upper extent bound of axis k
AxisMin(k) == 0

AxisMax(k) == IF dimensionality = "2D" /\ k = 1 THEN aspect * scale ELSE scale

\* C13: check_if_position_is_in_environment returns true exactly when every
\* coordinate lies strictly between its extent bounds; a coordinate on or beyond
\* a bound gives false.
C13_StrictInteriorTest ==
    ret.op = "check_if_position_is_in_environment" =>
        LET p == ret.args[1]
        IN  /\ ret.ok
            /\ ret.value = (\A k \in DOMAIN p : AxisMin(k) < p[k] /\ p[k] < AxisMax(k))
            /\ (\E k \in DOMAIN p : p[k] = AxisMin(k) \/ p[k] = AxisMax(k))
                   => ret.value = FALSE

\* C13 witness: a position with one coordinate on an edge and the other inside
\* is reported as not inside
C13_Witness ==
    /\ ret.op = "check_if_position_is_in_environment"
    /\ dimensionality = "2D"
    /\ ret.args[1][1] = aspect * scale
    /\ 0 < ret.args[1][2] /\ ret.args[1][2] < scale
    /\ ret.value = FALSE

\* C14: apply_boundary_conditions returns a strictly inside position unchanged;
\* a position that is not inside comes back, under solid boundaries, with every
\* coordinate clamped to [min + 0.01, max - 0.01] and, under periodic
\* boundaries, with every coordinate reduced modulo its axis's extent span.
C14_ClampOrWrap ==
    ret.op = "apply_boundary_conditions" =>
        LET p == ret.args[1]
            q == ret.value
        IN  /\ ret.ok
            /\ DOMAIN q = DOMAIN p
            /\ IF \A k \in DOMAIN p : AxisMin(k) < p[k] /\ p[k] < AxisMax(k)
               THEN q = p
               ELSE \A k \in DOMAIN p :
                      IF boundary_conditions = "solid"
                      THEN q[k] = (IF p[k] < AxisMin(k) + ClampMargin
                                   THEN AxisMin(k) + ClampMargin
                                   ELSE IF p[k] > AxisMax(k) - ClampMargin
                                   THEN AxisMax(k) - ClampMargin
                                   ELSE p[k])
                      ELSE /\ 0 <= q[k] /\ q[k] < AxisMax(k)
                           /\ \E n \in -2..2 : q[k] = p[k] + n * AxisMax(k)

\* C14 witness: a position on the right edge, clamped one margin inside under
\* solid boundaries with its other coordinate kept
C14_Witness ==
    /\ ret.op = "apply_boundary_conditions"
    /\ dimensionality = "2D" /\ boundary_conditions = "solid"
    /\ ret.args[1] = <<aspect * scale, 6>>
    /\ ret.value = <<aspect * scale - ClampMargin, 6>>

\* the call that has just returned is a 2D update of the stochastic policy
Stochastic2D ==
    /\ ret.op = "update" /\ ret.ok
    /\ dimensionality = "2D" /\ ~use_imported_trajectory

\* coordinate k of q is coordinate k of b reduced modulo the span of axis k
WrappedOnAxis(q, b, k) ==
    /\ 0 <= q[k] /\ q[k] < AxisMax(k)
    /\ (q[k] - b[k]) % AxisMax(k) = 0

\* C15: in a 2D periodic environment, when an update's step carries a coordinate
\* past an extent edge, the committed position, which is also the one recorded
\* in the history, has that coordinate equal to the unwrapped value modulo the
\* axis's span, and a coordinate that stayed inside is unaffected.
C15_PeriodicWrapOnUpdate ==
    (Stochastic2D /\ boundary_conditions = "periodic") =>
        LET b == ret.value.before_boundary
        IN  /\ history.pos[Len(history.pos)] = pos
            /\ \A k \in 1..2 :
                 IF AxisMin(k) < b[k] /\ b[k] < AxisMax(k)
                 THEN pos[k] = b[k]
                 ELSE WrappedOnAxis(pos, b, k)

\* C15 witness: a step past the left edge only, in the wide environment
C15_Witness ==
    /\ Stochastic2D /\ boundary_conditions = "periodic" /\ aspect = 2
    /\ ret.value.before_boundary[1] < 0
    /\ 0 < ret.value.before_boundary[2] /\ ret.value.before_boundary[2] < scale
    /\ pos = <<ret.value.before_boundary[1] + aspect * scale,
               ret.value.before_boundary[2]>>
    /\ history.pos[Len(history.pos)] = pos

\* C16: check_wall_collisions reports no collision for a proposed step whose
\* two ends are strictly inside the extent and whose segment shares no point
\* with any wall.
C16_ClearStepNeverCollides ==
    (ret.op = "check_wall_collisions" /\ dimensionality = "2D") =>
        LET proposed == ret.args[1]
        IN  /\ ret.ok
            /\ ( /\ StrictlyInside(proposed[1]) /\ StrictlyInside(proposed[2])
                 /\ \A i \in DOMAIN walls : ~segments_meet(proposed, walls[i]) )
                   => ret.value = {}

\* C16 witness: a step from (6,14) to (18,14) passes between the tip of the
\* wall (12,0)-(12,12) and the wall (6,16)-(18,16) and collides with nothing
C16_Witness ==
    /\ ret.op = "check_wall_collisions" /\ Solid2D /\ Len(walls) = 6
    /\ ret.args[1] = <<<<6, 14>>, <<18, 14>>>>
    /\ \A i \in DOMAIN walls : ~segments_meet(ret.args[1], walls[i])
    /\ ret.value = {}

\* C17: the euclidean distance of the environment is symmetric in its two
\* positions, under solid and under periodic boundaries.
C17_EuclideanSymmetric ==
    Queried("euclidean") =>
        /\ ret.ok
        /\ ret.value = get_distances_between___accounting_for_environment(
                           ret.args[2], ret.args[1], "euclidean", {}).value

\* C17 witness: a periodic pair whose distance goes around the back
C17_Witness ==
    /\ Queried("euclidean") /\ boundary_conditions = "periodic"
    /\ ret.args[1] # ret.args[2]
    /\ ret.value < QueriedEuclidean
    /\ ret.value = get_distances_between___accounting_for_environment(
                       ret.args[2], ret.args[1], "euclidean", {}).value

\* C18: the velocity wall_bounce returns has the same component along the wall
\* as the velocity it was given, the opposite component perpendicular to the
\* wall, and the same speed.
C18_BounceReflects ==
    ret.op = "wall_bounce" =>
        LET v     == ret.args[1]
            along == VSub(ret.args[2][2], ret.args[2][1])
            perp  == <<-along[2], along[1]>>
            new   == ret.value
        IN  /\ ret.ok
            /\ Dot(new, along) = Dot(v, along)
            /\ Dot(new, perp) = -Dot(v, perp)
            /\ Dot(new, new) = Dot(v, v)

\* C18 witness: the velocity (25, 0) bounces off a wall of direction (3, 4)
\* as (-7, 24)
C18_Witness ==
    /\ ret.op = "wall_bounce"
    /\ ret.args = <<<<25, 0>>, <<<<6, 8>>, <<9, 12>>>>>>
    /\ ret.value = <<-7, 24>>

\* the walls closer to p than wall_repel_distance
NearWalls(p) ==
    {i \in DOMAIN walls :
        Norm(shortest_vectors_from_points_to_lines(p, walls[i])) < wall_repel_distance}

\* the walls so close to p that their push exceeds the resolution of the
\* fixed-point arithmetic (the push grows from zero at wall_repel_distance)
ClearlyNearWalls(p) ==
    {i \in DOMAIN walls :
        Norm(shortest_vectors_from_points_to_lines(p, walls[i])) <= wall_repel_distance - 2}

\* the vector from wall i to p
FromWall(i, p) == shortest_vectors_from_points_to_lines(p, walls[i])

C19_WitnessFollowing ==
    /\ Stochastic2D /\ thigmotaxis = 2 /\ walls_repel /\ Solid2D
    /\ ncalls.update = 1
    /\ ret.value.after_repulsion[2][1] > 4
    /\ ret.value.after_repulsion[1] = ret.value.after_ou

\* the mirror image of v in the line of the wall: v - 2 (v.n) n / (n.n), n
\* perpendicular to the wall
Mirror(v, wall) ==
    LET along == VSub(wall[2], wall[1])
        n     == <<-along[2], along[1]>>
    IN  VQuot(VSub(VScale(Dot(n, n), v), VScale(2 * Dot(v, n), n)), Dot(n, n))

\* the walls the step proposed by the update that has just returned collides with
CollidingWalls ==
    LET p0 == ret.value.after_repulsion[2]
        v0 == ret.value.after_repulsion[1]
    IN  {i \in DOMAIN walls :
            vector_intercepts(walls[i], <<p0, VAdd(p0, VScale(dt, v0))>>,
                              i \in ret.args[3])}

\* C20: in a 2D stochastic update whose proposed step collides, the bounce is
\* off the colliding wall of lowest index, the velocity becomes the reflection
\* in that wall times 0.5 * speed_mean over its norm (a reflection the
\* fixed-point arithmetic holds as zero is a vector of unknown direction, and
\* becomes one of norm 0.5 * speed_mean), and the position advances by the new velocity times dt without
\* a second collision test; when no wall collides the position advances by
\* velocity * dt and the velocity is left as it was.
C20_BounceOffFirstCollidingWall ==
    Stochastic2D =>
        LET v0 == ret.value.after_repulsion[1]
            p0 == ret.value.after_repulsion[2]
            cw == ret.value.colliding_wall
            v1 == ret.value.velocity
            p1 == ret.value.before_boundary
        IN  /\ velocity = v1
            /\ IF CollidingWalls = {}
               THEN /\ cw = 0
                    /\ v1 = v0
                    /\ p1 = VAdd(p0, VScale(dt, v0))
               ELSE /\ cw \in CollidingWalls
                    /\ \A j \in CollidingWalls : cw <= j
                    /\ LET r == Mirror(v0, walls[cw])
                       IN  IF Norm(r) > 0
                           THEN v1 = VQuot(VScale(speed_mean, r), 2 * Norm(r))
                           ELSE Dot(v1, v1) = (speed_mean \div 2) * (speed_mean \div 2)
                    /\ p1 = VAdd(p0, VScale(dt, v1))

\* C20 witness: the proposed step collides with two walls, the bounce is off
\* the one of lower index and the position has advanced by the new velocity
C20_Witness ==
    /\ Stochastic2D
    /\ Cardinality(CollidingWalls) >= 2
    /\ \A j \in CollidingWalls : ret.value.colliding_wall <= j
    /\ Norm(ret.value.velocity) = speed_mean \div 2
    /\ ret.value.before_boundary =
          VAdd(ret.value.after_repulsion[2], VScale(dt, ret.value.velocity))

\* the step after the bounce is itself across a wall and is taken all the same
C20_WitnessNoSecondTest ==
    /\ Stochastic2D
    /\ ret.value.colliding_wall # 0
    /\ \E i \in DOMAIN walls :
          exact_collision(walls[i], <<ret.value.after_repulsion[2],
                                      ret.value.before_boundary>>)

\* the step is a successful update of the 2D stochastic policy
StochasticUpdate2D ==
    /\ ret'.op = "update" /\ ret'.ok /\ ncalls'.update = ncalls.update + 1
    /\ dimensionality = "2D" /\ ~use_imported_trajectory

\* the last entry of a sequence
Last(q) == q[Len(q)]

\* C21 as stated: in every 2D stochastic update, the first one included, the
\* velocity appended to the history is the boundary-aware vector from the
\* position held before the update to the new position, divided by dt.
C21_AsStated ==
    [][ StochasticUpdate2D =>
          Last(history'.vel) =
             VQuot(get_vectors_between___accounting_for_environment(pos', pos), dt')
      ]_vars

\* C21: in every 2D stochastic update from the second one onward, the velocity
\* appended to the history is the boundary-aware vector from the position held
\* before the update to the new position, divided by dt; in the first update it
\* is the agent's internal velocity after the update.
C21_RecordedVelocity ==
    [][ StochasticUpdate2D =>
          IF Len(history.vel) >= 1
          THEN Last(history'.vel) =
                  VQuot(get_vectors_between___accounting_for_environment(pos', pos), dt')
          ELSE Last(history'.vel) = velocity'
      ]_vars

\* C21 witness: a second update whose recorded velocity is the displacement
\* over dt and differs from the internal velocity
C21_Witness ==
    /\ Stochastic2D /\ Len(history.pos) = 2
    /\ Last(history.vel) =
          VQuot(get_vectors_between___accounting_for_environment(pos, history.pos[1]), dt)
    /\ Last(history.vel) # velocity

\* a first update whose recorded velocity is the internal velocity and not the
\* displacement over dt
C21_FirstUpdateRecordsInternalVelocity ==
    /\ Stochastic2D /\ Len(history.pos) = 1
    /\ Last(history.vel) = velocity
    /\ pos # VAdd(ret.value.after_repulsion[2], VScale(dt, velocity))

\* the sum of the plain Euclidean distances between consecutive entries of q
RECURSIVE PathLength(_, _)
PathLength(q, n) ==
    IF n <= 1 THEN 0
    ELSE PathLength(q, n - 1) + Norm(VSub(q[n], q[n - 1]))

C23_NegationIn1D ==
    [][ ( /\ ret'.op = "update" /\ ret'.ok /\ ncalls'.update = ncalls.update + 1
          /\ dimensionality = "1D" /\ ~use_imported_trajectory ) =>
        LET moved == pos[1] + dt' * velocity[1]
            dv    == ret'.args[2].dv
        IN  IF 0 < moved /\ moved < scale
            THEN /\ velocity'[1] - dv = velocity[1]
                 /\ pos'[1] = moved
            ELSE IF boundary_conditions = "solid"
            THEN /\ velocity'[1] - dv = -velocity[1]
                 /\ pos'[1] = (IF moved <= 0 THEN ClampMargin ELSE scale - ClampMargin)
            ELSE /\ velocity'[1] - dv = velocity[1]
                 /\ pos'[1] = moved % scale
      ]_vars

\* C23 witness: a solid 1D agent steps past the right edge; its velocity has
\* turned negative and its position is clamped one margin inside
C23_Witness ==
    /\ dimensionality = "1D" /\ boundary_conditions = "solid"
    /\ ret.op = "update" /\ ret.ok /\ ~use_imported_trajectory
    /\ ncalls.update = 1
    /\ ret.value.before_boundary[1] >= scale
    /\ velocity[1] - ret.args[2].dv = -speed_mean
    /\ pos = <<scale - ClampMargin>>

\* a periodic 1D agent steps past the right edge and keeps its velocity
C23_WitnessPeriodic ==
    /\ dimensionality = "1D" /\ boundary_conditions = "periodic"
    /\ ret.op = "update" /\ ret.ok /\ ~use_imported_trajectory
    /\ ncalls.update = 1
    /\ ret.value.before_boundary[1] >= scale
    /\ velocity[1] - ret.args[2].dv = speed_mean
    /\ pos[1] = ret.value.before_boundary[1] - scale

\* the step is a successful update in imported-trajectory playback
PlaybackUpdate ==
    /\ ret'.op = "update" /\ ret'.ok /\ ncalls'.update = ncalls.update + 1
    /\ use_imported_trajectory

\* the trajectory's sample at the looped time: the knot at (now modulo the
\* duration), the times of the knots being 0, 1, 2, ...
LoopedSample(now) == pos_interp[(now % (Len(t_interp) - 1)) + 1]

\* the velocity of playback after a recorded position: the boundary-aware
\* displacement from it to the new position, over dt
DisplacementOverDt ==
    VQuot(get_vectors_between___accounting_for_environment(pos', Last(history.pos)), dt')

\* C24 as stated: every playback update sets the position to the sample at the
\* looped time, and the velocity to the boundary-aware displacement from the
\* previously recorded position over dt.
C24_AsStated ==
    [][ PlaybackUpdate =>
          /\ pos' = LoopedSample(t')
          /\ Len(history.pos) >= 1 => velocity' = DisplacementOverDt
      ]_vars

\* C24: every playback update sets the position to the sample at the looped
\* time, clipped to the closed extent, whatever the walls and the previous
\* velocity; it sets the velocity, and the velocity it records, to the
\* boundary-aware displacement from the previously recorded position over dt, or
\* to zero when no position is recorded yet.
C24_Playback ==
    [][ PlaybackUpdate =>
          LET sample == LoopedSample(t')
          IN  /\ Len(pos') = Len(sample)
              /\ \A k \in DOMAIN sample :
                    pos'[k] = (IF sample[k] < AxisMin(k) THEN AxisMin(k)
                               ELSE IF sample[k] > AxisMax(k) THEN AxisMax(k)
                               ELSE sample[k])
              /\ IF Len(history.pos) >= 1
                 THEN velocity' = DisplacementOverDt
                 ELSE \A k \in DOMAIN velocity' : velocity'[k] = 0
              /\ Last(history'.vel) = velocity'
      ]_vars

\* C24 witness: the elapsed time has reached the end of the trajectory and the
\* position is back at its first sample, with the velocity of the jump
C24_Witness ==
    /\ ret.op = "update" /\ ret.ok /\ use_imported_trajectory
    /\ t = Len(t_interp) - 1
    /\ Len(history.pos) = 2
    /\ pos = pos_interp[1]
    /\ pos # history.pos[1]
    /\ velocity = VQuot(VSub(pos, history.pos[1]), dt)

\* the walls at a distance of at most wall_repel_distance from p
WallsWithinRepelDistance(p) ==
    {i \in DOMAIN walls : Norm(FromWall(i, p)) <= wall_repel_distance}

\* the sum of the spring accelerations of those of the first n walls that are
\* within wall_repel_distance of p
RECURSIVE NearAcceleration(_, _, _)
NearAcceleration(p, u, n) ==
    IF n = 0 THEN <<0, 0>>
    ELSE LET vec == FromWall(n, p)
         IN  IF Dot(vec, vec) >= (wall_repel_distance + 1) * (wall_repel_distance + 1)
             THEN NearAcceleration(p, u, n - 1)
             ELSE VAdd(NearAcceleration(p, u, n - 1), wall_acceleration_vec(vec, u))

\* the same sum of the conveyor-belt speeds
RECURSIVE NearSpeed(_, _, _)
NearSpeed(p, u, n) ==
    IF n = 0 THEN <<0, 0>>
    ELSE LET vec == FromWall(n, p)
         IN  IF Dot(vec, vec) >= (wall_repel_distance + 1) * (wall_repel_distance + 1)
             THEN NearSpeed(p, u, n - 1)
             ELSE VAdd(NearSpeed(p, u, n - 1), wall_speed_vec(vec, u))

\* C25: the wall repulsion sub-step of a 2D stochastic update changes neither
\* the velocity nor the position when walls_repel is false, when the environment
\* has no walls, or when every wall is farther from the agent than
\* wall_repel_distance; and the change it makes is the one the walls within
\* wall_repel_distance make by themselves.
C25_RepulsionFrame ==
    [][ StochasticUpdate2D =>
        LET before == ret'.value.after_ou
            after  == ret'.value.after_repulsion
        IN  /\ (~walls_repel \/ Len(walls) = 0 \/ WallsWithinRepelDistance(pos) = {})
                  => after = <<before, pos>>
            /\ (walls_repel /\ Len(walls) > 0) =>
                  \E u \in {ret'.args[2].u} :
                  \E acc \in {NearAcceleration(pos, u, Len(walls))} :
                  \E spd \in {NearSpeed(pos, u, Len(walls))} :
                  \E dv \in {<<dt' * acc[1], dt' * acc[2]>>} :
                  \E dx \in {<<dt' * spd[1], dt' * spd[2]>>} :
                  LET cv == 3 * (2 - thigmotaxis) * (2 - thigmotaxis)
                      cx == 6 * thigmotaxis * thigmotaxis
                  IN  /\ after[1] = <<before[1] + Quot(cv * dv[1], 4),
                                      before[2] + Quot(cv * dv[2], 4)>>
                      /\ after[2] = <<pos[1] + Quot(cx * dx[1], 4),
                                      pos[2] + Quot(cx * dx[2], 4)>>
      ]_vars

\* C25 witness: repulsion is disabled and the agent starts 4 cm from the left
\* wall; the sub-step leaves its velocity and its position as they were
C25_Witness ==
    /\ Stochastic2D /\ Solid2D /\ ~walls_repel /\ ncalls.update = 1
    /\ ret.value.after_repulsion = <<ret.value.after_ou, <<4, 12>>>>

\* a periodic environment without walls, repulsion enabled: nothing changes
C25_WitnessNoWalls ==
    /\ Stochastic2D /\ walls_repel /\ Len(walls) = 0 /\ ncalls.update = 1
    /\ ret.value.after_repulsion = <<ret.value.after_ou, <<4, 12>>>>

\* repulsion enabled, walls present, all of them farther than wall_repel_distance
C25_WitnessFar ==
    /\ Stochastic2D /\ walls_repel /\ Len(walls) > 0
    /\ \A i \in DOMAIN walls :
          Norm(FromWall(i, ret.value.after_repulsion[2])) > wall_repel_distance
    /\ ret.value.after_repulsion[1] = ret.value.after_ou

\* both intersection parameters of the pair handed to vector_intercepts lie
\* strictly between 0 and 1
BothParametersStrictlyInside ==
    LET I == intercepts(ret.args[1], ret.args[2])
    IN  /\ I.l_a[2] # 0 /\ I.l_b[2] # 0
        /\ 0 < I.l_a[1] * I.l_a[2] /\ Abs(I.l_a[1]) < Abs(I.l_a[2])
        /\ 0 < I.l_b[1] * I.l_b[2] /\ Abs(I.l_b[1]) < Abs(I.l_b[2])

\* the pair handed to vector_intercepts is exactly parallel
ExactlyParallel == intercepts(ret.args[1], ret.args[2]).l_a[2] = 0

\* C26 as stated: vector_intercepts reports a pair as colliding exactly when
\* both intersection parameters lie strictly between 0 and 1, so a pair that
\* only touches and an exactly parallel pair are reported as not colliding; no
\* error is raised.
C26_StrictTest ==
    ret.op = "vector_intercepts" =>
        /\ ret.ok
        /\ ret.value = BothParametersStrictlyInside
        /\ ExactlyParallel => ret.value = FALSE

\* C26: a step that ends exactly on a wall (its parameter is exactly 1) is
\* reported as colliding with it
C26_Witness ==
    /\ ret.op = "vector_intercepts"
    /\ ret.args[1] = <<<<12, 0>>, <<12, 12>>>>
    /\ ret.args[2] = <<<<6, 6>>, <<12, 6>>>>
    /\ ~BothParametersStrictlyInside
    /\ ret.value = TRUE

\* away from pairs that touch, the report is the strict test: a proper crossing
\* collides, a pair with no common point does not, and no error is raised
C26_HoldsAwayFromTouching ==
    (ret.op = "vector_intercepts" /\ ~segments_touch(ret.args[1], ret.args[2])) =>
        /\ ret.ok
        /\ ret.value = BothParametersStrictlyInside
        /\ ExactlyParallel => ret.value = FALSE

\* C27: shortest_vectors_from_points_to_lines returns the vector from the
\* nearest point of the segment to the query point: the vector starts on the
\* segment, at the foot of the perpendicular when the foot falls within the
\* segment and at the nearer endpoint when it falls beyond an end, and no
\* endpoint is nearer to the query point than where it starts.
C27_ShortestVector ==
    ret.op = "shortest_vectors_from_points_to_lines" =>
        LET pt    == ret.args[1]
            seg   == ret.args[2]
            r     == ret.value
            start == VSub(pt, r)
            along == VSub(seg[2], seg[1])
            l_num == Dot(VSub(pt, seg[1]), along)
            l_den == Dot(along, along)
        IN  /\ ret.ok
            /\ OnSegment(start, seg)
            /\ l_num < 0 => start = seg[1]
            /\ l_num > l_den => start = seg[2]
            /\ (0 <= l_num /\ l_num <= l_den) => Dot(r, along) = 0
            /\ \A k \in 1..2 : Dot(r, r) <= Dot(VSub(pt, seg[k]), VSub(pt, seg[k]))

\* C27 witness: the foot of the perpendicular from (6,14) on the wall
\* (12,0)-(12,12) is (12,14), beyond its end; the vector starts at (12,12)
C27_Witness ==
    /\ ret.op = "shortest_vectors_from_points_to_lines"
    /\ ret.args = <<<<6, 14>>, <<<<12, 0>>, <<12, 12>>>>>>
    /\ ret.value = <<-6, 2>>

\* q is r with one entry appended
ExtendsByOne(q, r) == Len(q) = Len(r) + 1 /\ SubSeq(q, 1, Len(r)) = r

\* C28: every successful update appends exactly one entry to history.t,
\* history.pos and history.vel (and to history.rot_vel in 2D, which stays empty
\* in 1D), the appended time and position being the agent's elapsed time and
\* position after the update, and leaves every earlier entry as it was; no other
\* step changes the history. The history starts empty, so after n successful
\* updates each list holds n entries.
C28_HistoryGrowsByAppending ==
    [][ /\ IF ret'.op = "update" /\ ret'.ok /\ ncalls'.update = ncalls.update + 1
           THEN /\ ExtendsByOne(history'.t, history.t)
                /\ ExtendsByOne(history'.pos, history.pos)
                /\ ExtendsByOne(history'.vel, history.vel)
                /\ IF dimensionality = "2D"
                   THEN ExtendsByOne(history'.rot_vel, history.rot_vel)
                   ELSE history'.rot_vel = history.rot_vel
                /\ Last(history'.t) = t'
                /\ Last(history'.pos) = pos'
           ELSE history' = history
        /\ Len(history'.pos) = Len(history'.t)
        /\ Len(history'.vel) = Len(history'.t)
        /\ Len(history'.rot_vel) = (IF dimensionality = "2D" THEN Len(history'.t) ELSE 0)
        /\ Len(history'.t) <= ncalls'.update
      ]_vars

\* C28 witness: two successful updates, two entries, the last the agent's time
\* and position, the first as the first update wrote it
C28_Witness ==
    /\ ncalls.update = 2 /\ ret.op = "update" /\ ret.ok
    /\ Len(history.t) = 2 /\ Len(history.pos) = 2 /\ Len(history.vel) = 2
    /\ Last(history.t) = t /\ Last(history.pos) = pos
    /\ history.pos[1] # pos /\ history.t[1] < t

\* C29 as stated: in a solid 2D environment with exactly one interior wall, a
\* geodesic distance query never fails and returns a finite distance, whatever
\* the wall and the pair of positions.
C29_GeodesicNeverFails ==
    (Solid2D /\ Len(walls) = 5 /\ Queried("geodesic")) =>
        /\ ret.ok
        /\ 0 <= ret.value /\ ret.value < LineOfSightSentinel

\* C29: the interior wall runs from the bottom edge to the top edge, neither
\* endpoint strictly inside; the query for a pair on opposite sides of it fails
C29_Witness ==
    /\ Solid2D /\ Len(walls) = 5 /\ Queried("geodesic")
    /\ ~StrictlyInside(walls[5][1]) /\ ~StrictlyInside(walls[5][2])
    /\ ret.args[1] = <<6, 6>> /\ ret.args[2] = <<18, 6>>
    /\ exact_collision(<<ret.args[1], ret.args[2]>>, walls[5])
    /\ ~ret.ok /\ ret.error = "ValueError"

\* the displacement of the update that has just returned, before any wrap: from
\* the previously recorded position to the position before the boundary step
UnwrappedDisplacement ==
    VSub(ret.value.before_boundary, history.pos[Len(history.pos) - 1])

\* the update that has just returned is a second or later 2D stochastic update
\* in a periodic environment whose step, shorter on every axis than half of the
\* axis's span, crossed an extent edge and was wrapped
WrappedShortStep ==
    /\ Stochastic2D /\ boundary_conditions = "periodic"
    /\ Len(history.pos) >= 2
    /\ pos # ret.value.before_boundary
    /\ \A k \in 1..2 : 2 * Abs(UnwrappedDisplacement[k]) < AxisMax(k)

\* C30 as stated: after a wrapped short step in a 2D periodic environment of any
\* aspect ratio, the recorded velocity is the unwrapped displacement of the step
\* over dt.
C30_FoldUndoesWrap ==
    WrappedShortStep => Last(history.vel) = VQuot(UnwrappedDisplacement, dt)

\* C30: in the environment of aspect 2 a short step to the right across the
\* right edge is recorded with a velocity to the left
C30_Witness ==
    /\ WrappedShortStep /\ aspect = 2
    /\ UnwrappedDisplacement[1] > 0
    /\ ret.value.before_boundary[1] >= aspect * scale
    /\ Last(history.vel)[1] < 0

\* in the square environment the fold does undo the wrap
C30_HoldsForAspectOne ==
    (WrappedShortStep /\ aspect = 1) =>
        Last(history.vel) = VQuot(UnwrappedDisplacement, dt)

\* a wrapped short step in the square environment
C30_WitnessAspectOne ==
    /\ WrappedShortStep /\ aspect = 1
    /\ Last(history.vel) = VQuot(UnwrappedDisplacement, dt)
    /\ Last(history.vel) # <<0, 0>>

====
